---- MODULE Spec2Model ----
(***************************************************************************)
(* Model of the HM8143 serial driver.  The repository holds two versions   *)
(* of the class HM8143: src/HM8143.py and src/main.py.  A driver object    *)
(* is an instance of one of them (variable `variant`); every method is     *)
(* one action that does what that version's method does, from its call to  *)
(* its return or raise.                                                    *)
(*                                                                         *)
(* Numbers.  A voltage or a current is a Python float; the model holds the *)
(* floats with at most two decimals, as an integer count of hundredths     *)
(* (690 is 6.9, -50 is -0.5).  A duration is held as an integer count of   *)
(* 100 microseconds (1 is 100e-6 s, 10000 is 1 s).                         *)
(*                                                                         *)
(* The serial port is the environment: the trace `log` records, in order,  *)
(* what the driver does to it and to the clock (write, readline, sleep).   *)
(***************************************************************************)
EXTENDS Integers, Sequences, FiniteSets, TLC

VARIABLES
    variant,   \* which file's class HM8143 the object is an instance of
    ser,       \* self.ser: the serial.Serial handle
    log,       \* the calls made on self.ser and time.sleep, in program order
    call,      \* the last method call: its name, arguments and outcome
    ncalls     \* number of method calls made on the object

vars == <<variant, ser, log, call, ncalls>>

\* Number of method calls made on one driver object.
MaxCalls == 2

----------------------------------------------------------------------------
(* Python's string conversions of the numbers the driver formats. *)

Digit(d) == <<"0", "1", "2", "3", "4", "5", "6", "7", "8", "9">>[d + 1]

RECURSIVE NatStr(_)
NatStr(n) == IF n < 10 THEN Digit(n) ELSE NatStr(n \div 10) \o Digit(n % 10)

\* f"{n}" of an int (channel, iteration).
IntStr(n) == IF n < 0 THEN "-" \o NatStr(-n) ELSE NatStr(n)

Abs(c) == IF c < 0 THEN -c ELSE c

Sign(c) == IF c < 0 THEN "-" ELSE ""

\* f"{x}" of a float x = c/100: the shortest repr, at least one decimal and
\* no trailing zeros after it ("6.9", "30.0", "0.42", "-0.5").
FloatStr(c) ==
    LET ip == Abs(c) \div 100
        fp == Abs(c) % 100
    IN  Sign(c) \o NatStr(ip) \o "." \o
        (IF fp % 10 = 0 THEN Digit(fp \div 10)
                        ELSE Digit(fp \div 10) \o Digit(fp % 10))

RECURSIVE ZeroPad(_, _)
ZeroPad(s, w) == IF Len(s) >= w THEN s ELSE ZeroPad("0" \o s, w)

\* f"{x:05.2f}" of x = c/100: two decimals, zero-padded after the sign to a
\* minimum total width of 5 ("06.90", "30.00", "-5.00", "100.00").
Format05_2f(c) ==
    LET digits == NatStr(Abs(c) \div 100) \o "." \o
                  Digit((Abs(c) % 100) \div 10) \o Digit(Abs(c) % 10)
    IN  Sign(c) \o ZeroPad(digits, 5 - Len(Sign(c)))

\* str.encode(): the ASCII bytes of a command.
serial_encode(cmd) == [bytes |-> cmd]

\* bytes.decode(): the text of the bytes read.
serial_decode(ret) == ret.bytes

----------------------------------------------------------------------------
(* The trace of what the driver does to the port and the clock. *)

Write(data) == [kind |-> "write", data |-> data]

Readline(data) == [kind |-> "readline", data |-> data]

Sleep(seconds) == [kind |-> "sleep", data |-> [seconds |-> seconds]]

\* The outcome of a call: err is the raised ValueError's message ("" when
\* the method returned), ret the returned value, pre the length of the trace
\* when the method was entered.
Call(op, args, err, ret) ==
    [op |-> op, args |-> args, err |-> err, ret |-> ret, pre |-> Len(log)]

NoRet == "None"

Init ==
    /\ variant \in {"HM8143", "main"}
    /\ ser = [state |-> "none", baudrate |-> 0]
    /\ log = <<>>
    /\ call = [op |-> "", args |-> <<>>, err |-> "", ret |-> NoRet, pre |-> 0]
    /\ ncalls = 0

----------------------------------------------------------------------------
(* __init__ *)

Baudrates == {4800, 9600, 19200, 38400}

SupportedBaudrates == {4800, 9600, 19200}

BaudrateError == IF variant = "HM8143" THEN "Baudrate not supported"
                                       ELSE "baudrate not supported"

\* A check that lets one more baud rate through.
BaudrateRejectedWider(baudrate) == baudrate \notin SupportedBaudrates \cup {38400}

\* Whether __init__ rejects the baud rate.
BaudrateRejected(baudrate) == baudrate \notin SupportedBaudrates

\* HM8143(port, baudrate): raises before serial.Serial is called, or opens
\* the port with that baud rate.
Construct(baudrate) ==
    /\ ser.state = "none"
    /\ IF BaudrateRejected(baudrate)
         THEN /\ call' = Call("__init__", <<baudrate>>, BaudrateError, NoRet)
              /\ UNCHANGED ser
         ELSE /\ call' = Call("__init__", <<baudrate>>, "", NoRet)
              /\ ser' = [state |-> "open", baudrate |-> baudrate]
    /\ UNCHANGED <<variant, log, ncalls>>

----------------------------------------------------------------------------
(* Methods.  A method is called on a constructed object whose port is open. *)

CanCall == ser.state = "open" /\ ncalls < MaxCalls

\* What the methods of main.py return where those of HM8143.py return None.
Ret1 == IF variant = "main" THEN "1" ELSE NoRet

\* A method that writes the commands of `events` and returns.
Done(op, args, events, ret) ==
    /\ log' = log \o events
    /\ call' = Call(op, args, "", ret)
    /\ ncalls' = ncalls + 1
    /\ UNCHANGED <<variant, ser>>

\* A method that raises ValueError(msg) before it touches the port.
Raise(op, args, msg) ==
    /\ call' = Call(op, args, msg, NoRet)
    /\ ncalls' = ncalls + 1
    /\ UNCHANGED <<variant, ser, log>>

start_remote_control ==
    /\ CanCall
    /\ Done("start_remote_control", <<>>, <<Write(serial_encode("RM1"))>>, Ret1)

end_remote_control ==
    /\ CanCall
    /\ Done("end_remote_control", <<>>, <<Write(serial_encode("RM0"))>>, Ret1)

start_mixed_control ==
    /\ CanCall
    /\ Done("start_mixed_control", <<>>, <<Write(serial_encode("MX1"))>>, Ret1)

end_mixed_control ==
    /\ CanCall
    /\ Done("end_mixed_control", <<>>, <<Write(serial_encode("MX0"))>>, Ret1)

enable_output_sockets ==
    /\ CanCall
    /\ Done("enable_output_sockets", <<>>, <<Write(serial_encode("OP1"))>>, Ret1)

\* The command disable_output_sockets writes: 'OP1' in HM8143.py, 'OP0' in
\* main.py.
DisableCommand == IF variant = "HM8143" THEN "OP1" ELSE "OP0"

disable_output_sockets ==
    /\ CanCall
    /\ Done("disable_output_sockets", <<>>,
            <<Write(serial_encode(DisableCommand))>>, Ret1)

----------------------------------------------------------------------------
(* Setting voltages and currents. *)

Channels == {1, 2, 3}

\* Voltages and currents passed by the caller, in hundredths.
Voltages == {-50, 690, 3000, 3001}

Currents == {-50, 42, 200, 201}

\* 30.0 V and 2.0 A, in hundredths.
VoltageLimit == 3000

CurrentLimit == 200

ChannelError == "channel index must not exceed 2"

VoltageError == "voltage must not exceed 30V"

CurrentError == "current must not exceed 2A"

\* set_current_sync raises with this message in both files.
CurrentSyncError == "current must not exceed 30V"

\* `channel not in [1, 2]`
ChannelRejected(channel) == channel \notin {1, 2}

\* `voltage > 30.0`
VoltageRejected(voltage) == voltage > VoltageLimit

\* `current > 2.0`
CurrentRejected(current) == current > CurrentLimit

\* f'SU{channel}:{voltage}'
SetVoltageCommand(voltage, channel) ==
    "SU" \o IntStr(channel) \o ":" \o FloatStr(voltage)

\* f'TRU:{voltage}'
SetVoltageSyncCommand(voltage) == "TRU:" \o FloatStr(voltage)

\* f'SI{channel}:{current}'
SetCurrentCommand(current, channel) ==
    "SI" \o IntStr(channel) \o ":" \o FloatStr(current)

\* f'TRI:{current}'
SetCurrentSyncCommand(current) == "TRI:" \o FloatStr(current)

set_voltage(voltage, channel) ==
    LET args == [voltage |-> voltage, channel |-> channel] IN
    /\ CanCall
    /\ IF ChannelRejected(channel)
         THEN Raise("set_voltage", args, ChannelError)
         ELSE IF VoltageRejected(voltage)
         THEN Raise("set_voltage", args, VoltageError)
         ELSE Done("set_voltage", args,
                   <<Write(serial_encode(SetVoltageCommand(voltage, channel)))>>,
                   Ret1)

set_voltage_sync(voltage) ==
    LET args == [voltage |-> voltage] IN
    /\ CanCall
    /\ IF VoltageRejected(voltage)
         THEN Raise("set_voltage_sync", args, VoltageError)
         ELSE Done("set_voltage_sync", args,
                   <<Write(serial_encode(SetVoltageSyncCommand(voltage)))>>,
                   Ret1)

\* set_current of main.py has no return statement.
set_current(current, channel) ==
    LET args == [current |-> current, channel |-> channel] IN
    /\ CanCall
    /\ IF ChannelRejected(channel)
         THEN Raise("set_current", args, ChannelError)
         ELSE IF CurrentRejected(current)
         THEN Raise("set_current", args, CurrentError)
         ELSE Done("set_current", args,
                   <<Write(serial_encode(SetCurrentCommand(current, channel)))>>,
                   NoRet)

set_current_sync(current) ==
    LET args == [current |-> current] IN
    /\ CanCall
    /\ IF CurrentRejected(current)
         THEN Raise("set_current_sync", args, CurrentSyncError)
         ELSE Done("set_current_sync", args,
                   <<Write(serial_encode(SetCurrentSyncCommand(current)))>>,
                   Ret1)

set_fuse ==
    /\ CanCall
    /\ Done("set_fuse", <<>>, <<Write(serial_encode("SF"))>>, Ret1)

clear_fuse ==
    /\ CanCall
    /\ Done("clear_fuse", <<>>, <<Write(serial_encode("CF"))>>, Ret1)

clear ==
    /\ CanCall
    /\ Done("clear", <<>>, <<Write(serial_encode("CLR"))>>, Ret1)

----------------------------------------------------------------------------
(* Queries.  The port is opened with timeout=0: readline() returns at once *)
(* with the bytes that have arrived, b'' when none has.                    *)

NoData == [bytes |-> ""]

\* What self.ser.readline() can return.
RxLines == {NoData, [bytes |-> "U1:06.90V\r\n"]}

\* A query that reads again after its first readline.
QueryRetrying(op, args, cmd, rx) ==
    Done(op, args, <<Write(serial_encode(cmd)), Readline(rx), Readline(rx)>>,
         serial_decode(rx))

\* A query: one write of the command, one readline, the decoded bytes
\* returned.
Query(op, args, cmd, rx) ==
    Done(op, args, <<Write(serial_encode(cmd)), Readline(rx)>>,
         serial_decode(rx))

return_voltage_target(channel, rx) ==
    /\ CanCall
    /\ Query("return_voltage_target", [channel |-> channel],
             "RU" \o IntStr(channel), rx)

return_current_target(channel, rx) ==
    /\ CanCall
    /\ Query("return_current_target", [channel |-> channel],
             "RI" \o IntStr(channel), rx)

return_voltage_actual(channel, rx) ==
    /\ CanCall
    /\ Query("return_voltage_actual", [channel |-> channel],
             "MU" \o IntStr(channel), rx)

return_current_actual(channel, rx) ==
    /\ CanCall
    /\ Query("return_current_actual", [channel |-> channel],
             "MI" \o IntStr(channel), rx)

return_status(rx) ==
    /\ CanCall
    /\ Query("return_status", <<>>, "STA", rx)

return_version(rx) ==
    /\ CanCall
    /\ Query("return_version", <<>>, "VER", rx)

return_ID(rx) ==
    /\ CanCall
    /\ Query("return_ID", <<>>, "ID?", rx)

----------------------------------------------------------------------------
(* The arbitrary function. *)

\* A dict literal: of the items written with the same key the last one's
\* value is kept.
DictOf(items) ==
    [k \in {items[i][1] : i \in DOMAIN items} |->
        items[CHOOSE i \in DOMAIN items :
                /\ items[i][1] = k
                /\ \A j \in DOMAIN items : items[j][1] = k => j <= i][2]]

\* HM8143.TIME_MAPPING of HM8143.py, as written (durations in 100 us).
TIME_MAPPING ==
    DictOf(<< <<1, "0">>, <<10, "1">>, <<20, "2">>, <<50, "3">>,
              <<100, "4">>, <<200, "5">>, <<500, "6">>, <<1000, "7">>,
              <<2000, "8">>, <<5000, "9">>, <<10000, "A">>, <<20000, "B">>,
              <<50000, "C">>, <<100000, "D">>, <<200000, "E">>,
              <<500000, "F">> >>)

\* time_mapping of main.py's load_arbitrary_func, as written: the tenth item
\* has the key 50e-3 again.
time_mapping ==
    DictOf(<< <<1, "0">>, <<10, "1">>, <<20, "2">>, <<50, "3">>,
              <<100, "4">>, <<200, "5">>, <<500, "6">>, <<1000, "7">>,
              <<2000, "8">>, <<500, "9">>, <<10000, "A">>, <<20000, "B">>,
              <<50000, "C">>, <<100000, "D">>, <<200000, "E">>,
              <<500000, "F">> >>)

\* The table the object's load_arbitrary_func uses.
TimeMapping == IF variant = "HM8143" THEN TIME_MAPPING ELSE time_mapping

IterationLimit == 255

IterationError == "max iterations: 255"

ArbVoltageError == "voltages must not exceed 30V"

DurationError ==
    IF variant = "HM8143"
    THEN "one of the set durations in arb func is not supported. "
         \o "Choose from the following: [0.05, 0.1, 0.2, 1, 2, 5, 10, 0.01, "
         \o "50, 20, 0.005, 0.02, 0.0001, 0.002, 0.001]"
    ELSE "one of the set durations in arb func is not suppoerted. "
         \o "Choose from the following: [0.05, 0.1, 0.2, 1, 2, 5, 10, 0.01, "
         \o "50, 20, 0.005, 0.02, 0.0001, 0.002, 0.001]"

\* arb_function is a dict {duration: voltage}: here the sequence of its
\* items <<duration, voltage>> in insertion order, the order a loop over the
\* dict takes them in.
Keys(arb_function) == {arb_function[i][1] : i \in DOMAIN arb_function}

\* The checks with the iteration limit off by one.
LoadErrorOffByOne(arb_function, iteration) ==
    IF iteration > IterationLimit + 1
    THEN IterationError
    ELSE IF \E i \in DOMAIN arb_function : arb_function[i][2] > VoltageLimit
    THEN ArbVoltageError
    ELSE IF ~ (Keys(arb_function) \subseteq DOMAIN TimeMapping)
    THEN DurationError
    ELSE ""

\* The three checks of load_arbitrary_func, in the order the code makes
\* them: the message of the first that fails, "" when all pass.
LoadError(arb_function, iteration) ==
    IF iteration > IterationLimit
    THEN IterationError
    ELSE IF \E i \in DOMAIN arb_function : arb_function[i][2] > VoltageLimit
    THEN ArbVoltageError
    ELSE IF ~ (Keys(arb_function) \subseteq DOMAIN TimeMapping)
    THEN DurationError
    ELSE ""

\* The loop `for key in arb_function`: code, voltage as 05.2f, '_' per item.
RECURSIVE EncodeSteps(_)
EncodeSteps(arb_function) ==
    IF arb_function = <<>>
    THEN ""
    ELSE TimeMapping[Head(arb_function)[1]]
         \o Format05_2f(Head(arb_function)[2]) \o "_"
         \o EncodeSteps(Tail(arb_function))

\* comm, as built from 'ABT:' to f"N{iteration}".
LoadCommand(arb_function, iteration) ==
    "ABT:" \o EncodeSteps(arb_function) \o "N" \o IntStr(iteration)

load_arbitrary_func(arb_function, iteration) ==
    LET args == [arb_function |-> arb_function, iteration |-> iteration] IN
    /\ CanCall
    /\ IF LoadError(arb_function, iteration) # ""
         THEN Raise("load_arbitrary_func", args,
                    LoadError(arb_function, iteration))
         ELSE Done("load_arbitrary_func", args,
                   <<Write(serial_encode(LoadCommand(arb_function, iteration)))>>,
                   Ret1)

\* time.sleep(0.1)
SettlingInterval == "0.1"

\* RUN written first, the sockets enabled after the wait.
RunEventsSwapped ==
    <<Write(serial_encode("RUN")), Sleep(SettlingInterval),
      Write(serial_encode("OP1"))>>

\* What run_arbitrary_func does, in order.
RunEvents ==
    <<Write(serial_encode("OP1")), Sleep(SettlingInterval),
      Write(serial_encode("RUN"))>>

\* What stop_arbitrary_func does, in order.
StopEvents ==
    <<Write(serial_encode("STP")), Sleep(SettlingInterval),
      Write(serial_encode("OP0"))>>

run_arbitrary_func ==
    /\ CanCall
    /\ Done("run_arbitrary_func", <<>>, RunEvents, Ret1)

stop_arbitrary_func ==
    /\ CanCall
    /\ Done("stop_arbitrary_func", <<>>, StopEvents, Ret1)

\* self.ser.close()
end_connection ==
    /\ CanCall
    /\ ser' = [ser EXCEPT !.state = "closed"]
    /\ call' = Call("end_connection", <<>>, "", Ret1)
    /\ ncalls' = ncalls + 1
    /\ UNCHANGED <<variant, log>>

----------------------------------------------------------------------------
(* The arguments load_arbitrary_func is called with. *)

\* The sixteen durations of the instrument's table, and 3 s.
TableDurations ==
    {1, 10, 20, 50, 100, 200, 500, 1000, 2000, 5000, 10000, 20000, 50000,
     100000, 200000, 500000}

ThreeSeconds == 3 * 10000

IterationCounts == {0, 2, 255, 256}

\* One step of each duration, at 10 V.
OneStepFunctions == {<< <<d, 1000>> >> : d \in TableDurations \cup {ThreeSeconds}}

\* {1: 20.0, 1e-3: 15.0, 100e-3: 2.0}, a function with the voltages 30 and
\* 0, and functions with a voltage above 30 or a duration outside the table
\* at the first or at a later step.
ExampleFunction == << <<10000, 2000>>, <<10, 1500>>, <<1000, 200>> >>

OtherFunctions ==
    { ExampleFunction,
      << <<10000, 3000>>, <<10, 0>> >>,
      << <<10000, 3001>> >>,
      << <<10000, 2000>>, <<10, 3001>> >>,
      << <<10000, 2000>>, <<ThreeSeconds, 1500>> >>,
      << <<ThreeSeconds, 3001>>, <<10, 1500>> >> }

LoadInputs ==
    (OneStepFunctions \X {2}) \cup (OtherFunctions \X IterationCounts)

Next ==
    \/ \E baudrate \in Baudrates : Construct(baudrate)
    \/ start_remote_control
    \/ end_remote_control
    \/ start_mixed_control
    \/ end_mixed_control
    \/ enable_output_sockets
    \/ disable_output_sockets
    \/ \E voltage \in Voltages, channel \in Channels : set_voltage(voltage, channel)
    \/ \E voltage \in Voltages : set_voltage_sync(voltage)
    \/ \E current \in Currents, channel \in Channels : set_current(current, channel)
    \/ \E current \in Currents : set_current_sync(current)
    \/ set_fuse
    \/ clear_fuse
    \/ clear
    \/ \E channel \in Channels, rx \in RxLines : return_voltage_target(channel, rx)
    \/ \E channel \in Channels, rx \in RxLines : return_current_target(channel, rx)
    \/ \E channel \in Channels, rx \in RxLines : return_voltage_actual(channel, rx)
    \/ \E channel \in Channels, rx \in RxLines : return_current_actual(channel, rx)
    \/ \E rx \in RxLines : return_status(rx)
    \/ \E rx \in RxLines : return_version(rx)
    \/ \E rx \in RxLines : return_ID(rx)
    \/ \E in \in LoadInputs : load_arbitrary_func(in[1], in[2])
    \/ run_arbitrary_func
    \/ stop_arbitrary_func
    \/ end_connection

Spec == Init /\ [][Next]_vars

----------------------------------------------------------------------------
(* Properties. *)

\* What the last call did to the port and the clock.
CallEvents == SubSeq(log, call.pre + 1, Len(log))

\* The last call raised, and did nothing to the port.
FailedBeforeAnyWrite == call.err # "" /\ CallEvents = <<>>

\* The last call returned having done exactly one thing: the write of cmd.
WroteExactly(cmd) == call.err = "" /\ CallEvents = <<Write([bytes |-> cmd])>>

\* c/100 with two digits before and two after the point; no such rendering
\* exists below 0 or from 100.
TwoPlusTwo(c) ==
    IF c < 0 \/ c > 9999
    THEN "(none)"
    ELSE Digit(c \div 1000) \o Digit((c \div 100) % 10) \o "."
         \o Digit((c \div 10) % 10) \o Digit(c % 10)

\* C1: for a channel in {1,2} and a value in range, set_voltage,
\* set_voltage_sync, set_current and set_current_sync write exactly SU{ch}:,
\* TRU:, SI{ch}: or TRI: followed by the value with two digits before and two
\* after the point.
C1_SetCommandsTwoPlusTwo ==
    /\ (/\ call.op = "set_voltage"
        /\ call.args.channel \in {1, 2}
        /\ call.args.voltage >= 0 /\ call.args.voltage <= 3000)
       => WroteExactly("SU" \o IntStr(call.args.channel) \o ":"
                       \o TwoPlusTwo(call.args.voltage))
    /\ (/\ call.op = "set_voltage_sync"
        /\ call.args.voltage >= 0 /\ call.args.voltage <= 3000)
       => WroteExactly("TRU:" \o TwoPlusTwo(call.args.voltage))
    /\ (/\ call.op = "set_current"
        /\ call.args.channel \in {1, 2}
        /\ call.args.current >= 0 /\ call.args.current <= 200)
       => WroteExactly("SI" \o IntStr(call.args.channel) \o ":"
                       \o TwoPlusTwo(call.args.current))
    /\ (/\ call.op = "set_current_sync"
        /\ call.args.current >= 0 /\ call.args.current <= 200)
       => WroteExactly("TRI:" \o TwoPlusTwo(call.args.current))

\* C2: disable_output_sockets writes exactly OP0 and enable_output_sockets
\* exactly OP1; after a call of disable_output_sockets the last command of
\* the write log is OP0.
C2_DisableWritesOP0 ==
    /\ call.op = "disable_output_sockets"
       => /\ WroteExactly("OP0")
          /\ log[Len(log)] = Write([bytes |-> "OP0"])
    /\ call.op = "enable_output_sockets" => WroteExactly("OP1")

PerChannelOps ==
    {"set_voltage", "set_current", "return_voltage_target",
     "return_current_target", "return_voltage_actual", "return_current_actual"}

\* C3: with a channel not in {1,2} every per-channel operation fails with a
\* validation error and neither writes to nor reads from the port.
C3_BadChannelRejected ==
    (call.op \in PerChannelOps /\ call.args.channel \notin {1, 2})
    => FailedBeforeAnyWrite

\* C4: a voltage outside [0,30] passed to set_voltage or set_voltage_sync,
\* and a current outside [0,2] passed to set_current or set_current_sync,
\* fails with a validation error and the write log is unchanged.
C4_OutOfRangeRejected ==
    /\ (/\ call.op \in {"set_voltage", "set_voltage_sync"}
        /\ (call.args.voltage < 0 \/ call.args.voltage > 3000))
       => FailedBeforeAnyWrite
    /\ (/\ call.op \in {"set_current", "set_current_sync"}
        /\ (call.args.current < 0 \/ call.args.current > 200))
       => FailedBeforeAnyWrite

\* The instrument's table of durations (in 100 us) and codes.
DurationCode(d) ==
    CASE d = 1 -> "0" [] d = 10 -> "1" [] d = 20 -> "2" [] d = 50 -> "3"
      [] d = 100 -> "4" [] d = 200 -> "5" [] d = 500 -> "6"
      [] d = 1000 -> "7" [] d = 2000 -> "8" [] d = 5000 -> "9"
      [] d = 10000 -> "A" [] d = 20000 -> "B" [] d = 50000 -> "C"
      [] d = 100000 -> "D" [] d = 200000 -> "E" [] d = 500000 -> "F"

RECURSIVE ExpectedSteps(_)
ExpectedSteps(steps) ==
    IF steps = <<>>
    THEN ""
    ELSE DurationCode(Head(steps)[1]) \o TwoPlusTwo(Head(steps)[2]) \o "_"
         \o ExpectedSteps(Tail(steps))

ValidProgram(steps, iteration) ==
    /\ \A i \in DOMAIN steps : steps[i][1] \in TableDurations
    /\ \A i \in DOMAIN steps : steps[i][2] <= 3000
    /\ iteration <= 255

\* C5: for a valid program load_arbitrary_func writes exactly one command:
\* ABT:, then per step in the caller's order the duration code, the voltage
\* with two digits before and two after the point and an underscore, then
\* N and the iteration count.
C5_LoadWritesProgram ==
    (/\ call.op = "load_arbitrary_func"
     /\ ValidProgram(call.args.arb_function, call.args.iteration))
    => WroteExactly("ABT:" \o ExpectedSteps(call.args.arb_function)
                    \o "N" \o IntStr(call.args.iteration))

\* C6: load_arbitrary_func with an iteration count above 255, a step voltage
\* above 30 or a step duration outside the table fails with an error that
\* names a constraint the call violates, and writes nothing.
C6_LoadValidatesBeforeWrite ==
    call.op = "load_arbitrary_func" =>
        LET steps == call.args.arb_function
            badIteration == call.args.iteration > 255
            badVoltage == \E i \in DOMAIN steps : steps[i][2] > 3000
            badDuration == \E i \in DOMAIN steps : steps[i][1] \notin TableDurations
        IN  (badIteration \/ badVoltage \/ badDuration)
            => /\ FailedBeforeAnyWrite
               /\ \/ call.err = "max iterations: 255" /\ badIteration
                  \/ call.err = "voltages must not exceed 30V" /\ badVoltage
                  \/ call.err = DurationError /\ badDuration

\* A call with a duration of 3 s at a later step was refused after an
\* earlier call had written to the port.
C6_Witness ==
    /\ call.op = "load_arbitrary_func"
    /\ call.args.arb_function = << <<10000, 2000>>, <<ThreeSeconds, 1500>> >>
    /\ call.err = DurationError
    /\ call.pre > 0
    /\ Len(log) = call.pre

\* C7: the table load_arbitrary_func uses is total over the sixteen
\* durations and injective: a one-step program of any of the sixteen
\* durations finds its duration in the table, under a code no other duration
\* has, is accepted, and is written with the instrument's code for that
\* duration (0.05 s -> 6, 0.5 s -> 9) right after ABT:.
C7_TableTotalInjective ==
    (/\ call.op = "load_arbitrary_func"
     /\ Len(call.args.arb_function) = 1
     /\ ValidProgram(call.args.arb_function, call.args.iteration))
    => LET d == call.args.arb_function[1][1] IN
       /\ d \in DOMAIN TimeMapping
       /\ \A d2 \in DOMAIN TimeMapping : TimeMapping[d2] = TimeMapping[d] => d2 = d
       /\ call.err = ""
       /\ Len(CallEvents) = 1
       /\ CallEvents[1].kind = "write"
       /\ SubSeq(CallEvents[1].data.bytes, 1, 5) = "ABT:" \o DurationCode(d)

\* C8: run_arbitrary_func writes OP1, waits, writes RUN, and
\* stop_arbitrary_func writes STP, waits, writes OP0, with nothing in
\* between; every RUN of the trace has the wait and the OP1 right before it
\* and every STP has the wait and the OP0 right after it.
C8_RunStopOrder ==
    /\ call.op = "run_arbitrary_func"
       => /\ call.err = ""
          /\ CallEvents = <<Write([bytes |-> "OP1"]), Sleep("0.1"),
                            Write([bytes |-> "RUN"])>>
    /\ call.op = "stop_arbitrary_func"
       => /\ call.err = ""
          /\ CallEvents = <<Write([bytes |-> "STP"]), Sleep("0.1"),
                            Write([bytes |-> "OP0"])>>
    /\ \A i \in DOMAIN log :
           log[i] = Write([bytes |-> "RUN"])
           => /\ i >= 3
              /\ log[i - 1] = Sleep("0.1")
              /\ log[i - 2] = Write([bytes |-> "OP1"])
    /\ \A i \in DOMAIN log :
           log[i] = Write([bytes |-> "STP"])
           => /\ i + 2 <= Len(log)
              /\ log[i + 1] = Sleep("0.1")
              /\ log[i + 2] = Write([bytes |-> "OP0"])

\* run_arbitrary_func returned after stop_arbitrary_func had.
C8_Witness ==
    /\ call.op = "run_arbitrary_func"
    /\ call.pre = 3
    /\ log[1] = Write([bytes |-> "STP"])
    /\ log[Len(log)] = Write([bytes |-> "RUN"])

QueryOps ==
    {"return_voltage_target", "return_current_target", "return_voltage_actual",
     "return_current_actual", "return_status", "return_version", "return_ID"}

\* C9: a query whose response has not arrived fails with a timeout error;
\* it returns no value.
C9_NoResponseIsTimeout ==
    (/\ call.op \in QueryOps
     /\ Len(log) > 0
     /\ log[Len(log)] = Readline(NoData))
    => call.err # "" /\ call.ret = NoRet

\* C10: construction with a baud rate outside {4800, 9600, 19200} fails
\* before the port is opened and leaves no handle; with one of the three it
\* opens the port with that baud rate.
C10_BaudrateAllowList ==
    /\ ser.state # "none" => ser.baudrate \in {4800, 9600, 19200}
    /\ call.op = "__init__" =>
         IF call.args[1] \in {4800, 9600, 19200}
         THEN /\ call.err = ""
              /\ ser = [state |-> "open", baudrate |-> call.args[1]]
         ELSE /\ call.err # ""
              /\ ser.state = "none"
              /\ log = <<>>

\* Construction with 38400 baud was refused.
C10_Witness ==
    /\ call.op = "__init__"
    /\ call.args = <<38400>>
    /\ call.err = BaudrateError
    /\ ser.state = "none"

\* The writes and the readlines among the events of the last call.
CallWrites == SelectSeq(CallEvents, LAMBDA e : e.kind = "write")

CallReads == SelectSeq(CallEvents, LAMBDA e : e.kind = "readline")

\* The last call is a method call that returned.
MethodReturned == call.op \notin {"", "__init__"} /\ call.err = ""

\* One write, and for a query one readline right after it, nothing else on
\* the port.
OneWriteOneReadIfQuery ==
    /\ Len(CallWrites) = 1
    /\ IF call.op \in QueryOps
         THEN /\ Len(CallReads) = 1
              /\ CallEvents[1].kind = "write"
              /\ CallEvents[Len(CallEvents)].kind = "readline"
         ELSE CallReads = <<>>

\* C11 as claimed: every successful method call performs exactly one write,
\* and exactly one readline, after that write, if and only if the method is
\* a query.
C11_OneWritePerCall == MethodReturned => OneWriteOneReadIfQuery

\* C11 as amended: a successful call of run_arbitrary_func or
\* stop_arbitrary_func performs exactly two writes and no readline, one of
\* end_connection performs none of either, and every other successful method
\* call performs exactly one write, and exactly one readline, after that
\* write, if and only if the method is a query.
C11_OneWritePerCallButRunStopClose ==
    MethodReturned =>
        CASE call.op \in {"run_arbitrary_func", "stop_arbitrary_func"}
               -> Len(CallWrites) = 2 /\ CallReads = <<>>
          [] call.op = "end_connection"
               -> CallWrites = <<>> /\ CallReads = <<>>
          [] OTHER -> OneWriteOneReadIfQuery

\* A query returned, after an earlier call, having written once and then
\* read once.
C11_Witness ==
    /\ call.op = "return_status"
    /\ call.err = ""
    /\ call.pre > 0
    /\ CallEvents = <<Write([bytes |-> "STA"]), Readline(NoData)>>

====
